---------------------------- MODULE Spec2Model ----------------------------
(***************************************************************************)
(* A model of the two analysis notebooks of hops-sensory-analysis:         *)
(*   1_clean_data.ipynb       load CSV, expand acronyms, reshape, count    *)
(*                            words, save comments_cleaned.json            *)
(*   2_keywords_phrases.ipynb reload the JSON, partition by sample type,   *)
(*                            n-gram counts, onion/garlic share,           *)
(*                            categorical prevalence                       *)
(*                                                                         *)
(* A Python str is modelled as a sequence of one-character strings, so     *)
(* that regular expressions, case folding, escaping and tokenization are   *)
(* computed character by character as the code computes them.  float NaN   *)
(* (pandas' missing value) is the value NaN below, which is no text.       *)
(***************************************************************************)
EXTENDS Naturals, Integers, Sequences, FiniteSets, TLC

(***************************************************************************)
(* Bounds of the model.                                                    *)
(***************************************************************************)
\* longest enumerated comment of the character-level specifications
MaxLen == 4
\* largest number of rows of the input file in the pipeline specifications
MaxRows == 2
\* largest number of records of an interchange document
MaxRecords == 3

(***************************************************************************)
(* Characters.                                                             *)
(***************************************************************************)
\* a Python str literal as the sequence of its characters
Chars(s) == [i \in 1..Len(s) |-> SubSeq(s, i, i)]

UpperCase == Chars("ABCDEFGHIJKLMNOPQRSTUVWXYZ")
LowerCase == Chars("abcdefghijklmnopqrstuvwxyz")
Digits == {"0","1","2","3","4","5","6","7","8","9"}
Letters == {UpperCase[i] : i \in 1..26} \cup {LowerCase[i] : i \in 1..26}

\* float('nan'): the value pandas gives an empty CSV field.  "NaN" is not a
\* character, so NaN differs from every text.
NaN == <<"NaN">>

\* pd.isna / pd.notna on a cell value
isna(x) == x = NaN

\* str.lower() on one character; re.IGNORECASE compares lower(c)
lower_char(c) ==
    IF \E i \in 1..26 : UpperCase[i] = c
    THEN LowerCase[CHOOSE i \in 1..26 : UpperCase[i] = c]
    ELSE c

\* str.lower()
lower(text) == [i \in 1..Len(text) |-> lower_char(text[i])]

\* the regular expression class \w: letter, digit or underscore
IsWordChar(c) == c \in Letters \cup Digits \cup {"_"}

\* the regular expression class \s
IsSpace(c) == c \in {" ", "\t", "\n"}

(***************************************************************************)
(* Regular expressions of the form \b<literal>\b with re.IGNORECASE.       *)
(***************************************************************************)
\* \b before position i (1..Len+1): exactly one of text[i-1], text[i] is \w
Boundary(text, i) ==
    LET W(j) == j >= 1 /\ j <= Len(text) /\ IsWordChar(text[j])
    IN  W(i - 1) # W(i)

\* the literal lit matches text at position i, ignoring case
LiteralAt(text, i, lit) ==
    /\ i + Len(lit) - 1 <= Len(text)
    /\ \A j \in 1..Len(lit) : lower_char(text[i + j - 1]) = lower_char(lit[j])

\* the same pattern written without its \b anchors
WordAt_Unanchored(text, i, lit) == LiteralAt(text, i, lit)

\* \b<lit>\b matches text at position i
WordAt(text, i, lit) ==
    /\ LiteralAt(text, i, lit)
    /\ Boundary(text, i)
    /\ Boundary(text, i + Len(lit))

\* re.sub with count=1: only the leftmost match is replaced
SubFrom_FirstOnly(text, i, lit, repl) ==
    LET hits == { j \in i..Len(text) : WordAt(text, j, lit) }
    IN  IF hits = {} THEN SubSeq(text, i, Len(text))
        ELSE LET j == CHOOSE h \in hits : \A g \in hits : h <= g
             IN  SubSeq(text, i, j - 1) \o repl
                   \o SubSeq(text, j + Len(lit), Len(text))

\* re.sub(rf"\b{re.escape(lit)}\b", repl, text, flags=re.I): leftmost,
\* non-overlapping matches, scanned from position i
RECURSIVE SubFrom(_, _, _, _)
SubFrom(text, i, lit, repl) ==
    IF i > Len(text) THEN <<>>
    ELSE IF WordAt(text, i, lit)
         THEN repl \o SubFrom(text, i + Len(lit), lit, repl)
         ELSE <<text[i]>> \o SubFrom(text, i + 1, lit, repl)

\* len(re.findall(rf"\b{lit}\b", text, flags=re.I)), scanned from position i
RECURSIVE CountFrom(_, _, _)
CountFrom(text, i, lit) ==
    IF i > Len(text) THEN 0
    ELSE IF WordAt(text, i, lit)
         THEN 1 + CountFrom(text, i + Len(lit), lit)
         ELSE CountFrom(text, i + 1, lit)

\* a replacement on the cell turned into a str first: a missing value
\* becomes the text "nan"
str_replace_AsStr(x, lit, repl) ==
    SubFrom(IF isna(x) THEN Chars("nan") ELSE x, 1, lit, repl)

\* Series.str.replace(pattern, repl, regex=True, case=False) on one cell:
\* a missing value stays missing
str_replace(x, lit, repl) == IF isna(x) THEN NaN ELSE SubFrom(x, 1, lit, repl)

\* Series.str.count(pattern, flags=re.IGNORECASE) on one cell; .sum() skips
\* the NaN of a missing cell, which therefore adds 0
str_count(x, lit) == IF isna(x) THEN 0 ELSE CountFrom(x, 1, lit)

\* re.search(r"\b(a|b|...)\b", text, flags=re.I) is not None, the
\* alternatives being the literals of alts
search(alts, text) ==
    \E i \in 1..Len(text) : \E a \in alts : WordAt(text, i, a)

(***************************************************************************)
(* 1_clean_data.ipynb: the acronym map, in insertion order.                *)
(***************************************************************************)
\* a map whose first expansion is itself a later key of the map
acronym_map_Chained == <<
    [abbr |-> Chars("GO"),
     full |-> Chars("ONG")],
    [abbr |-> Chars("O/G"),
     full |-> Chars("onion garlic")],
    [abbr |-> Chars("ONG"),
     full |-> Chars("onion garlic")],
    [abbr |-> Chars("DMTS"),
     full |-> Chars("dimethyl trisulfide")],
    [abbr |-> Chars("T2N"),
     full |-> Chars("trans-2-nonenal")],
    [abbr |-> Chars("H2S"),
     full |-> Chars("hydrogen sulfide")],
    [abbr |-> Chars("IPA"),
     full |-> Chars("india pale ale")],
    [abbr |-> Chars("IPL"),
     full |-> Chars("india pale lager")] >>

\* acronym_map
acronym_map == <<
    [abbr |-> Chars("GO"),
     full |-> Chars("onion garlic")],
    [abbr |-> Chars("O/G"),
     full |-> Chars("onion garlic")],
    [abbr |-> Chars("ONG"),
     full |-> Chars("onion garlic")],
    [abbr |-> Chars("DMTS"),
     full |-> Chars("dimethyl trisulfide")],
    [abbr |-> Chars("T2N"),
     full |-> Chars("trans-2-nonenal")],
    [abbr |-> Chars("H2S"),
     full |-> Chars("hydrogen sulfide")],
    [abbr |-> Chars("IPA"),
     full |-> Chars("india pale ale")],
    [abbr |-> Chars("IPL"),
     full |-> Chars("india pale lager")] >>

\* r"\bindia pale ales\b", the pattern plural_count counts
india_pale_ales ==
    Chars("india pale ales")

\* r"\bohai\b" and its replacement
ohai == Chars("ohai")
ohai_full == Chars("overall hop aroma intensity")

(***************************************************************************)
(* json.dump / json.load of one value (ensure_ascii=False).                *)
(***************************************************************************)
\* the characters one character of a str is written with
json_escape_char(c) ==
    CASE c = "\"" -> <<"\\", "\"">>
      [] c = "\\" -> <<"\\", "\\">>
      [] c = "\n" -> <<"\\", "n">>
      [] c = "\t" -> <<"\\", "t">>
      [] OTHER    -> <<c>>

RECURSIVE json_escape(_)
json_escape(text) ==
    IF text = <<>> THEN <<>>
    ELSE json_escape_char(Head(text)) \o json_escape(Tail(text))

\* json.dump of a cell value: a str between quotes, float NaN as the bare
\* token NaN (allow_nan is left at its default)
json_dumps_value(x) ==
    IF isna(x) THEN Chars("NaN")
    ELSE <<"\"">> \o json_escape(x) \o <<"\"">>

\* a reader that takes the escaped body as it stands
json_unescape_Raw(body) == body

\* the str an escaped body stands for
RECURSIVE json_unescape(_)
json_unescape(body) ==
    IF body = <<>> THEN <<>>
    ELSE IF Head(body) = "\\" /\ Len(body) >= 2
         THEN LET c == body[2]
                  d == CASE c = "n" -> "\n" [] c = "t" -> "\t" [] OTHER -> c
              IN  <<d>> \o json_unescape(Tail(Tail(body)))
         ELSE <<Head(body)>> \o json_unescape(Tail(body))

\* json.load of a value: the token NaN is float NaN, a quoted body a str
json_loads_value(v) ==
    IF v = Chars("NaN") THEN NaN
    ELSE json_unescape(SubSeq(v, 2, Len(v) - 1))

\* json.dump(records, f, indent=4, ensure_ascii=False): one object per
\* record, in list order, with the keys of the dict
json_dump(recs) ==
    [r \in 1..Len(recs) |->
        [sample |-> json_dumps_value(recs[r].sample),
         text   |-> json_dumps_value(recs[r].text)]]

\* json.load(f)
json_load(doc) ==
    [r \in 1..Len(doc) |->
        [sample |-> json_loads_value(doc[r].sample),
         text   |-> json_loads_value(doc[r].text)]]

(***************************************************************************)
(* nltk.word_tokenize.                                                     *)
(***************************************************************************)
\* characters the Treebank tokenizer makes a token of their own; a comma or
\* colon is split off unless a digit follows.  (A double quote is rewritten
\* to `` or '', one token either way.)
IsOwnToken(text, i) ==
    \/ text[i] \in {";", "@", "#", "$", "%", "&", "?", "!", "\"",
                    "(", ")", "[", "]", "{", "}", "<", ">"}
    \/ /\ text[i] \in {",", ":"}
       /\ (i = Len(text) \/ text[i + 1] \notin Digits)

\* the tokens of text from position i on, cur being the token under way
RECURSIVE SplitFrom(_, _, _)
SplitFrom(text, i, cur) ==
    LET flush == IF cur = <<>> THEN <<>> ELSE <<cur>>
    IN  IF i > Len(text) THEN flush
        ELSE IF IsSpace(text[i]) THEN flush \o SplitFrom(text, i + 1, <<>>)
        ELSE IF IsOwnToken(text, i)
             THEN flush \o << <<text[i]>> >> \o SplitFrom(text, i + 1, <<>>)
             ELSE SplitFrom(text, i + 1, Append(cur, text[i]))

\* the Treebank contractions that need no apostrophe: (?i)\b(can)(not)\b ...
contractions == {
    <<Chars("can"), Chars("not")>>, <<Chars("gim"), Chars("me")>>,
    <<Chars("gon"), Chars("na")>>,  <<Chars("got"), Chars("ta")>>,
    <<Chars("lem"), Chars("me")>>,  <<Chars("wan"), Chars("na")>> }

\* a token that is such a contraction is split in its two parts, case kept
split_contraction(tok) ==
    LET hit == { c \in contractions : lower(tok) = c[1] \o c[2] }
    IN  IF hit = {} THEN <<tok>>
        ELSE LET c == CHOOSE c \in hit : TRUE
             IN  <<SubSeq(tok, 1, Len(c[1])), SubSeq(tok, Len(c[1]) + 1, Len(tok))>>

RECURSIVE FlatMapContractions(_)
FlatMapContractions(toks) ==
    IF toks = <<>> THEN <<>>
    ELSE split_contraction(Head(toks)) \o FlatMapContractions(Tail(toks))

word_tokenize(text) == FlatMapContractions(SplitFrom(text, 1, <<>>))

(***************************************************************************)
(* 2_keywords_phrases.ipynb: text preprocessing components.                *)
(***************************************************************************)
\* stopwords.words("english"), restricted to the words of the model's
\* comments (the list is NLTK's; it holds "no", "not" and "very")
stopwords_english == {
    Chars("a"), Chars("an"), Chars("and"), Chars("the"), Chars("in"),
    Chars("this"), Chars("of"), Chars("is"), Chars("it"), Chars("but"),
    Chars("can"), Chars("no"), Chars("not"), Chars("very"), Chars("to") }

important_words == { Chars("not"), Chars("no"), Chars("very"), Chars("never") }

\* stop_words -= important_words
stop_words == stopwords_english \ important_words

\* the nouns of WordNet among the words of the model's comments
wordnet_nouns == {
    Chars("fruit"), Chars("note"), Chars("onion"), Chars("garlic"),
    Chars("mango"), Chars("peach"), Chars("hop"), Chars("berry"),
    Chars("one"), Chars("citrus"), Chars("ale"), Chars("can"), Chars("beer") }

\* WordNetLemmatizer.lemmatize(tok) with its default pos="n": the shortest
\* form WordNet knows among tok and tok with a noun suffix detached
\* ("s" -> "", "ses" -> "s", "ies" -> "y"), and tok itself if there is none
EndsWith(tok, suffix) ==
    /\ Len(tok) > Len(suffix)
    /\ SubSeq(tok, Len(tok) - Len(suffix) + 1, Len(tok)) = suffix

Detach(tok, suffix, ending) ==
    IF EndsWith(tok, suffix)
    THEN { SubSeq(tok, 1, Len(tok) - Len(suffix)) \o ending }
    ELSE {}

lemmatize(tok) ==
    LET forms == ({tok} \cup Detach(tok, Chars("s"), <<>>)
                        \cup Detach(tok, Chars("ses"), Chars("s"))
                        \cup Detach(tok, Chars("ies"), Chars("y")))
                    \cap wordnet_nouns
    IN  IF forms = {} THEN tok
        ELSE CHOOSE f \in forms : \A g \in forms : Len(f) <= Len(g)

\* text = re.sub(r"[^\w\s]", "", text)
IsWordOrSpace(c) == IsWordChar(c) \/ IsSpace(c)
remove_punctuation(text) == SelectSeq(text, IsWordOrSpace)

\* text = re.sub(r"\d+", "", text)
IsNotDigit(c) == c \notin Digits
remove_digits(text) == SelectSeq(text, IsNotDigit)

\* tokens = word_tokenize(text) after the three cleaning statements
tokens_of(text) == word_tokenize(remove_digits(remove_punctuation(lower(text))))

\* the filter of the list comprehension
keep_token(tok) == tok \notin stop_words /\ Len(tok) > 2

\* cleaned_tokens = [lemmatizer.lemmatize(tok) for tok in tokens if ...]
cleaned_tokens(text) ==
    LET kept == SelectSeq(tokens_of(text), keep_token)
    IN  [i \in 1..Len(kept) |-> lemmatize(kept[i])]

(***************************************************************************)
(* N-grams of one comment and collections.Counter.                         *)
(***************************************************************************)
\* [f"{t[i]} {t[i+1]}" for i in range(len(t) - 1)]
bigrams_of(t) == [i \in 1..(Len(t) - 1) |-> t[i] \o <<" ">> \o t[i + 1]]

\* windows of three that start at every position but the last and are
\* clipped at the end of the list
trigrams_of_Clipped(t) ==
    [i \in 1..(Len(t) - 1) |->
        t[i] \o <<" ">> \o t[i + 1] \o <<" ">>
             \o t[IF i + 2 > Len(t) THEN Len(t) ELSE i + 2]]

\* [f"{t[i]} {t[i+1]} {t[i+2]}" for i in range(len(t) - 2)]
trigrams_of(t) ==
    [i \in 1..(Len(t) - 2) |-> t[i] \o <<" ">> \o t[i + 1] \o <<" ">> \o t[i + 2]]

\* a counter that counts a key again only when it is the last one inserted
CounterAdd_LastOnly(counter, key) ==
    IF counter # <<>> /\ counter[Len(counter)].key = key
    THEN [counter EXCEPT ![Len(counter)].n = @ + 1]
    ELSE IF \E j \in 1..Len(counter) : counter[j].key = key
         THEN counter
         ELSE Append(counter, [key |-> key, n |-> 1])

\* a Counter is a dict: its items in insertion order, each [key, n]
CounterAdd(counter, key) ==
    IF \E j \in 1..Len(counter) : counter[j].key = key
    THEN [j \in 1..Len(counter) |->
            IF counter[j].key = key
            THEN [counter[j] EXCEPT !.n = @ + 1] ELSE counter[j]]
    ELSE Append(counter, [key |-> key, n |-> 1])

\* Counter(items): counter extended with items[i..]
RECURSIVE CounterFrom(_, _, _)
CounterFrom(counter, items, i) ==
    IF i > Len(items) THEN counter
    ELSE CounterFrom(CounterAdd(counter, items[i]), items, i + 1)

\* a count that starts at the second item
Counter_FromSecond(items) == CounterFrom(<<>>, items, 2)

Counter(items) == CounterFrom(<<>>, items, 1)

(***************************************************************************)
(* 2_keywords_phrases.ipynb: descriptor categories, in insertion order.    *)
(***************************************************************************)
onion_garlic_pattern == { Chars("onion"), Chars("garlic") }

descriptor_categories == <<
    [label |-> "tropical fruits",
     alts  |-> { Chars("tropical"), Chars("pineapple"), Chars("mango"),
                 Chars("passion"), Chars("papaya"), Chars("guava"),
                 Chars("lychee") }],
    [label |-> "citrus fruits",
     alts  |-> { Chars("citrus"), Chars("orange"), Chars("grapefruit"),
                 Chars("lemon"), Chars("lime"), Chars("tangerine"),
                 Chars("mandarin"), Chars("yuzu"), Chars("tangelo") }],
    [label |-> "stone fruits",
     alts  |-> { Chars("stone fruit"), Chars("peach"), Chars("nectarine"),
                 Chars("apricot"), Chars("plum") }],
    [label |-> "fruit (general)",
     alts  |-> { Chars("fruit"), Chars("fruity") }],
    [label |-> "onion garlic",
     alts  |-> { Chars("onion"), Chars("garlic") }],
    [label |-> "melons",
     alts  |-> { Chars("melon"), Chars("watermelon"), Chars("cantaloupe"),
                 Chars("honeydew") }],
    [label |-> "berries",
     alts  |-> { Chars("berry"), Chars("strawberry"), Chars("blackberry"),
                 Chars("blueberry"), Chars("raspberry") }] >>

\* len(re.findall(pattern, text, flags=re.I)): every occurrence counted
match_count_Occurrences(alts, text) ==
    Cardinality({ i \in 1..Len(text) : \E a \in alts : WordAt(text, i, a) })

\* bool(re.search(pattern, text, flags=re.I)) as the summand it is: 1 or 0
match_count(alts, text) == IF search(alts, text) THEN 1 ELSE 0

\* sum(bool(re.search(pattern, text, flags=re.I)) for text in texts[i..])
RECURSIVE count_matching(_, _, _)
count_matching(alts, texts, i) ==
    IF i > Len(texts) THEN 0
    ELSE match_count(alts, texts[i]) + count_matching(alts, texts, i + 1)

(***************************************************************************)
(* Cell values of the input file.                                          *)
(***************************************************************************)
DriedHops == Chars("Dried Hops")
Beer == Chars("Beer")
EventName == Chars("Hopsource")

\* the fields pd.read_csv turns into NaN (its default na_values); the model
\* keeps the empty field and two of the spelled-out markers
na_values == { <<>>, Chars("NA"), Chars("nan") }

\* pd.read_csv on one field
read_field(raw) == IF raw \in na_values THEN NaN ELSE raw

\* pd.read_csv on one line of the file
read_row(line) ==
    [Event    |-> read_field(line[1]),
     Sample   |-> read_field(line[2]),
     Comments |-> read_field(line[3])]

(***************************************************************************)
(* State.                                                                  *)
(***************************************************************************)
VARIABLES
    csv,                \* "Vera Sensory Comments.csv": lines of three fields
    data,               \* notebook 1: the DataFrame, a sequence of rows
    abbr_i,             \* notebook 1: position of the acronym loop in the map
    plural_count,       \* notebook 1: plural_count
    ohai_count,         \* notebook 1: ohai_count
    records,            \* notebook 1: records
    hops_word_counts,   \* notebook 1: hops_word_counts
    beer_word_counts,   \* notebook 1: beer_word_counts
    file,               \* "comments_cleaned.json": [exists, doc]
    data2,              \* notebook 2: data, the list json.load returns
    hops_texts,         \* both notebooks: hops_texts
    beer_texts,         \* both notebooks: beer_texts
    text_i,             \* notebook 2: position of "for text in ..._texts"
    hops_ngrams,        \* notebook 2: [words, bigrams, trigrams] of hops_*
    beer_ngrams,        \* notebook 2: [words, bigrams, trigrams] of beer_*
    hops_counts,        \* notebook 2: hops_{unigram,bigram,trigram}_counts
    beer_counts,        \* notebook 2: beer_{unigram,bigram,trigram}_counts
    frequent_trigrams,  \* notebook 2: frequent_trigrams
    hops_top,           \* notebook 2: the ranked lists the hops cell prints
    beer_top,           \* notebook 2: the ranked lists the beer cell prints
    onion_garlic,       \* notebook 2: [hops, beer]: hops_/beer_onion_garlic
    hops_rows,          \* notebook 2: hops_rows
    beer_rows,          \* notebook 2: beer_rows
    pc,                 \* the cell (or loop) to run next
    err                 \* the exception that stopped the run, or "none"

nb1 == <<csv, data, abbr_i, plural_count, ohai_count, records,
         hops_word_counts, beer_word_counts, file>>
texts == <<hops_texts, beer_texts>>
ngrams == <<text_i, hops_ngrams, beer_ngrams, hops_counts, beer_counts,
            frequent_trigrams, hops_top, beer_top>>
prevalence == <<onion_garlic, hops_rows, beer_rows>>
nb2 == <<data2, ngrams, prevalence>>

vars == <<nb1, texts, nb2, pc, err>>

NoFile == [exists |-> FALSE, doc |-> <<>>]
NoNgrams == [words |-> <<>>, bigrams |-> <<>>, trigrams |-> <<>>]
NoCounts == [unigram |-> <<>>, bigram |-> <<>>, trigram |-> <<>>]
NoTop == [unigrams |-> <<>>, bigrams |-> <<>>, trigrams |-> <<>>]

\* the state of a fresh kernel of notebook 2
FreshNb2 ==
    /\ data2 = <<>>
    /\ text_i = 1
    /\ hops_ngrams = NoNgrams
    /\ beer_ngrams = NoNgrams
    /\ hops_counts = NoCounts
    /\ beer_counts = NoCounts
    /\ frequent_trigrams = <<>>
    /\ hops_top = NoTop
    /\ beer_top = NoTop
    /\ onion_garlic = [hops |-> 0, beer |-> 0]
    /\ hops_rows = <<>>
    /\ beer_rows = <<>>

\* the state before the first cell of notebook 1 runs, the input file
\* being input
InitWith(input) ==
    /\ csv = input
    /\ data = <<>>
    /\ abbr_i = 1
    /\ plural_count = 0
    /\ ohai_count = 0
    /\ records = <<>>
    /\ hops_word_counts = <<>>
    /\ beer_word_counts = <<>>
    /\ file = NoFile
    /\ hops_texts = <<>>
    /\ beer_texts = <<>>
    /\ FreshNb2
    /\ pc = "read_csv"
    /\ err = "none"

\* a cell runs only while no earlier cell has raised
Running(cell) == pc = cell /\ err = "none"

\* an exception ends the run: the statement assigns nothing
Raise(e) == err' = e

(***************************************************************************)
(* Notebook 1, cell "Load data".                                           *)
(***************************************************************************)
ReadCsv ==
    /\ Running("read_csv")
    /\ data' = [r \in 1..Len(csv) |-> read_row(csv[r])]
    /\ pc' = "acronyms"
    /\ UNCHANGED <<csv, abbr_i, plural_count, ohai_count, records,
                   hops_word_counts, beer_word_counts, file, texts, nb2, err>>

(***************************************************************************)
(* Notebook 1, cell "Expand acronyms".                                     *)
(***************************************************************************)
\* data["Comments"].str exists only for a column of dtype object: a column
\* of a non-empty frame whose every field is missing is float64, and the
\* accessor raises AttributeError
HasStrAccessor(frame) ==
    Len(frame) = 0 \/ \E r \in 1..Len(frame) : ~isna(frame[r].Comments)

\* data["Comments"] = data["Comments"].str.replace(pattern, full, ...)
ReplaceInComments(frame, lit, repl) ==
    [r \in 1..Len(frame) |->
        [frame[r] EXCEPT !.Comments = str_replace(@, lit, repl)]]

\* data["Comments"].str.count(pattern, flags=re.IGNORECASE).sum()
RECURSIVE CountInComments(_, _, _)
CountInComments(frame, r, lit) ==
    IF r > Len(frame) THEN 0
    ELSE str_count(frame[r].Comments, lit) + CountInComments(frame, r + 1, lit)

\* one iteration of "for abbr, full in acronym_map.items()"
ApplyAcronym ==
    /\ Running("acronyms")
    /\ abbr_i <= Len(acronym_map)
    /\ IF HasStrAccessor(data)
       THEN /\ data' = ReplaceInComments(data, acronym_map[abbr_i].abbr,
                                         acronym_map[abbr_i].full)
            /\ abbr_i' = abbr_i + 1
            /\ pc' = IF abbr_i = Len(acronym_map) THEN "special_cases"
                                                  ELSE "acronyms"
            /\ UNCHANGED err
       ELSE /\ Raise("AttributeError")
            /\ UNCHANGED <<data, abbr_i, pc>>
    /\ UNCHANGED <<csv, plural_count, ohai_count, records, hops_word_counts,
                   beer_word_counts, file, texts, nb2>>

\* "Handle special cases": the plural count, then the ohai replacement
SpecialCases ==
    /\ Running("special_cases")
    /\ plural_count' = CountInComments(data, 1, india_pale_ales)
    /\ ohai_count' = CountInComments(data, 1, ohai)
    /\ data' = IF ohai_count' > 0
               THEN ReplaceInComments(data, ohai, ohai_full)
               ELSE data
    /\ pc' = "reshape"
    /\ UNCHANGED <<csv, abbr_i, records, hops_word_counts, beer_word_counts,
                   file, texts, nb2, err>>

(***************************************************************************)
(* Notebook 1, cells "Reshape data", "Count words", "Save cleaned data".   *)
(***************************************************************************)
\* data[["Sample", "Comments"]].rename(...).to_dict(orient="records")
to_records(frame) ==
    [r \in 1..Len(frame) |->
        [sample |-> frame[r].Sample, text |-> frame[r].Comments]]

\* [item["text"] for item in recs if item["sample"] == sample]
RECURSIVE texts_of(_, _)
texts_of(recs, sample) ==
    IF recs = <<>> THEN <<>>
    ELSE (IF Head(recs).sample = sample THEN <<Head(recs).text>> ELSE <<>>)
            \o texts_of(Tail(recs), sample)

\* word_count(text)
word_count(text) == IF isna(text) THEN 0 ELSE Len(word_tokenize(text))

Reshape ==
    /\ Running("reshape")
    /\ records' = to_records(data)
    /\ pc' = "split"
    /\ UNCHANGED <<csv, data, abbr_i, plural_count, ohai_count,
                   hops_word_counts, beer_word_counts, file, texts, nb2, err>>

\* "Separate comments by sample type" (notebook 1)
SplitRecords ==
    /\ Running("split")
    /\ hops_texts' = texts_of(records, DriedHops)
    /\ beer_texts' = texts_of(records, Beer)
    /\ pc' = "word_count"
    /\ UNCHANGED <<nb1, nb2, err>>

\* the word counts and their statistics: np.min of an empty list raises
\* ValueError (zero-size array), so the cell needs a comment of each type
WordCounts ==
    /\ Running("word_count")
    /\ hops_word_counts' = [i \in 1..Len(hops_texts) |-> word_count(hops_texts[i])]
    /\ beer_word_counts' = [i \in 1..Len(beer_texts) |-> word_count(beer_texts[i])]
    /\ IF hops_texts = <<>> \/ beer_texts = <<>>
       THEN Raise("ValueError") /\ UNCHANGED pc
       ELSE pc' = "save" /\ UNCHANGED err
    /\ UNCHANGED <<csv, data, abbr_i, plural_count, ohai_count, records,
                   file, texts, nb2>>

\* json.dump(records, f, indent=4, ensure_ascii=False)
Save ==
    /\ Running("save")
    /\ file' = [exists |-> TRUE, doc |-> json_dump(records)]
    /\ pc' = "json_load"
    /\ UNCHANGED <<csv, data, abbr_i, plural_count, ohai_count, records,
                   hops_word_counts, beer_word_counts, texts, nb2, err>>

(***************************************************************************)
(* Notebook 2, cells "Load data" and "Separate comments by sample type".   *)
(* (The two demonstration cells, random.sample(data, 10) and the tagging   *)
(* of data[90], assign nothing the later cells read and are left out.)     *)
(***************************************************************************)
JsonLoad ==
    /\ Running("json_load")
    /\ IF file.exists
       THEN data2' = json_load(file.doc) /\ pc' = "partition" /\ UNCHANGED err
       ELSE Raise("FileNotFoundError") /\ UNCHANGED <<data2, pc>>
    /\ UNCHANGED <<nb1, texts, ngrams, prevalence>>

\* the partition, then the printed distribution len(..._texts)/len(data)*100
Partition ==
    /\ Running("partition")
    /\ hops_texts' = texts_of(data2, DriedHops)
    /\ beer_texts' = texts_of(data2, Beer)
    /\ IF Len(data2) = 0
       THEN Raise("ZeroDivisionError") /\ UNCHANGED pc
       ELSE pc' = "hops_ngrams" /\ UNCHANGED err
    /\ UNCHANGED <<nb1, nb2>>

(***************************************************************************)
(* Notebook 2, the two n-gram cells.                                       *)
(***************************************************************************)
\* the same body with the windows taken over the whole token stream so far
extend_ngrams_OverStream(lists, text) ==
    LET toks == cleaned_tokens(text)
    IN  [words    |-> lists.words \o toks,
         bigrams  |-> bigrams_of(lists.words \o toks),
         trigrams |-> trigrams_of(lists.words \o toks)]

\* the body of "for text in ..._texts" for one comment: the three lists
\* after the extend and the two append loops
extend_ngrams(lists, text) ==
    LET toks == cleaned_tokens(text)
    IN  [words    |-> lists.words \o toks,
         bigrams  |-> lists.bigrams \o bigrams_of(toks),
         trigrams |-> lists.trigrams \o trigrams_of(toks)]

\* Counter(words), Counter(bigrams), Counter(trigrams)
count_ngrams(lists) ==
    [unigram |-> Counter(lists.words),
     bigram  |-> Counter(lists.bigrams),
     trigram |-> Counter(lists.trigrams)]

\* a sort by count that puts the later of two equal counts first
RECURSIVE sort_by_count_LaterFirst(_)
sort_by_count_LaterFirst(items) ==
    IF items = <<>> THEN <<>>
    ELSE LET rest == sort_by_count_LaterFirst(SubSeq(items, 1, Len(items) - 1))
             x == items[Len(items)]
             before == SelectSeq(rest, LAMBDA y : y.n > x.n)
             after == SelectSeq(rest, LAMBDA y : y.n <= x.n)
         IN  before \o <<x>> \o after

\* list.sort(key=lambda x: x[1], reverse=True): stable, larger counts first
RECURSIVE sort_by_count(_)
sort_by_count(items) ==
    IF items = <<>> THEN <<>>
    ELSE LET rest == sort_by_count(SubSeq(items, 1, Len(items) - 1))
             x == items[Len(items)]
             before == SelectSeq(rest, LAMBDA y : y.n >= x.n)
             after == SelectSeq(rest, LAMBDA y : y.n < x.n)
         IN  before \o <<x>> \o after

\* a filter that lets every counted item through
MoreThanOnce_Any(item) == item.n >= 1

\* [(tg, c) for tg, c in counts.items() if c > 1], sorted
MoreThanOnce(item) == item.n > 1
frequent(trigram_counts) == sort_by_count(SelectSeq(trigram_counts, MoreThanOnce))

\* the 10 of most_common(10) and of frequent_trigrams[:10]
TopK == 10

\* items[:n]
first_n(items, n) == SubSeq(items, 1, IF Len(items) < n THEN Len(items) ELSE n)

\* Counter.most_common(n): heapq.nlargest(n, items, key=count), which is
\* sorted(items, key=count, reverse=True)[:n]
most_common(counter, n) == first_n(sort_by_count(counter), n)

\* the three ranked lists a cell prints: the top unigrams and bigrams and
\* the first frequent trigrams
ranked_lists(counts, trigrams) ==
    [unigrams |-> most_common(counts.unigram, TopK),
     bigrams  |-> most_common(counts.bigram, TopK),
     trigrams |-> first_n(trigrams, TopK)]

\* one iteration of "for text in hops_texts": text.lower() raises
\* AttributeError on a float
HopsNgramIter ==
    /\ Running("hops_ngrams")
    /\ text_i <= Len(hops_texts)
    /\ IF isna(hops_texts[text_i])
       THEN Raise("AttributeError") /\ UNCHANGED <<hops_ngrams, text_i>>
       ELSE /\ hops_ngrams' = extend_ngrams(hops_ngrams, hops_texts[text_i])
            /\ text_i' = text_i + 1
            /\ UNCHANGED err
    /\ UNCHANGED <<nb1, texts, data2, beer_ngrams, hops_counts, beer_counts,
                   frequent_trigrams, hops_top, beer_top, prevalence, pc>>

\* the rest of the cell, after the loop
HopsNgramCount ==
    /\ Running("hops_ngrams")
    /\ text_i > Len(hops_texts)
    /\ hops_counts' = count_ngrams(hops_ngrams)
    /\ frequent_trigrams' = frequent(hops_counts'.trigram)
    /\ hops_top' = ranked_lists(hops_counts', frequent_trigrams')
    /\ text_i' = 1
    /\ pc' = "beer_ngrams"
    /\ UNCHANGED <<nb1, texts, data2, hops_ngrams, beer_ngrams, beer_counts,
                   beer_top, prevalence, err>>

BeerNgramIter ==
    /\ Running("beer_ngrams")
    /\ text_i <= Len(beer_texts)
    /\ IF isna(beer_texts[text_i])
       THEN Raise("AttributeError") /\ UNCHANGED <<beer_ngrams, text_i>>
       ELSE /\ beer_ngrams' = extend_ngrams(beer_ngrams, beer_texts[text_i])
            /\ text_i' = text_i + 1
            /\ UNCHANGED err
    /\ UNCHANGED <<nb1, texts, data2, hops_ngrams, hops_counts, beer_counts,
                   frequent_trigrams, hops_top, beer_top, prevalence, pc>>

BeerNgramCount ==
    /\ Running("beer_ngrams")
    /\ text_i > Len(beer_texts)
    /\ beer_counts' = count_ngrams(beer_ngrams)
    /\ frequent_trigrams' = frequent(beer_counts'.trigram)
    /\ beer_top' = ranked_lists(beer_counts', frequent_trigrams')
    /\ text_i' = 1
    /\ pc' = "pos"
    /\ UNCHANGED <<nb1, texts, data2, hops_ngrams, beer_ngrams, hops_counts,
                   hops_top, prevalence, err>>

(***************************************************************************)
(* Notebook 2, the part-of-speech cells.  The tagger is spaCy's pretrained *)
(* model; its tags are only printed and counted for printing, and no later *)
(* cell reads them.  nlp(text) raises ValueError on a float.               *)
(***************************************************************************)
has_missing(items) == \E i \in 1..Len(items) : isna(items[i])

PosTagging ==
    /\ Running("pos")
    /\ IF has_missing(hops_texts) \/ has_missing(beer_texts)
       THEN Raise("ValueError") /\ UNCHANGED pc
       ELSE pc' = "onion_garlic" /\ UNCHANGED err
    /\ UNCHANGED <<nb1, texts, nb2>>

(***************************************************************************)
(* Notebook 2, cells "Onion garlic descriptor analysis" and "Categorical   *)
(* descriptor analysis".                                                   *)
(***************************************************************************)
\* the exception of "sum(... re.search(pattern, text) ... for text in items)"
\* followed by "n / len(items)", or "none": re.search raises TypeError on a
\* float, the division ZeroDivisionError on an empty partition
share_error(items) ==
    IF has_missing(items) THEN "TypeError"
    ELSE IF Len(items) = 0 THEN "ZeroDivisionError"
    ELSE "none"

\* both sums are assigned, then both shares are printed
OnionGarlic ==
    /\ Running("onion_garlic")
    /\ IF has_missing(hops_texts) \/ has_missing(beer_texts)
       THEN Raise("TypeError") /\ UNCHANGED <<onion_garlic, pc>>
       ELSE /\ onion_garlic' =
                 [hops |-> count_matching(onion_garlic_pattern, hops_texts, 1),
                  beer |-> count_matching(onion_garlic_pattern, beer_texts, 1)]
            /\ IF Len(hops_texts) = 0 \/ Len(beer_texts) = 0
               THEN Raise("ZeroDivisionError") /\ UNCHANGED pc
               ELSE pc' = "categorical" /\ UNCHANGED err
    /\ UNCHANGED <<nb1, texts, data2, ngrams, hops_rows, beer_rows>>

\* the same rows with the share stored as a percentage, n * 100 / total
prevalence_rows_Percent(items) ==
    [c \in 1..Len(descriptor_categories) |->
        LET n == count_matching(descriptor_categories[c].alts, items, 1)
        IN  [category     |-> descriptor_categories[c].label,
             n_comments   |-> n,
             pct_comments |-> [num |-> n * 100, den |-> Len(items)],
             n_total      |-> Len(items)]]

\* the rows of one partition: for each category n, n / total (kept as the
\* exact fraction num/den) and total
prevalence_rows(items) ==
    [c \in 1..Len(descriptor_categories) |->
        LET n == count_matching(descriptor_categories[c].alts, items, 1)
        IN  [category     |-> descriptor_categories[c].label,
             n_comments   |-> n,
             pct_comments |-> [num |-> n, den |-> Len(items)],
             n_total      |-> Len(items)]]

\* the hops loop, then the beer loop; a loop that raises appends no row
Categorical ==
    /\ Running("categorical")
    /\ LET hops_err == share_error(hops_texts)
           beer_err == share_error(beer_texts)
       IN  /\ hops_rows' = IF hops_err = "none"
                           THEN prevalence_rows(hops_texts) ELSE <<>>
           /\ beer_rows' = IF hops_err = "none" /\ beer_err = "none"
                           THEN prevalence_rows(beer_texts) ELSE <<>>
           /\ IF hops_err # "none" THEN Raise(hops_err) /\ UNCHANGED pc
              ELSE IF beer_err # "none" THEN Raise(beer_err) /\ UNCHANGED pc
              ELSE pc' = "done" /\ UNCHANGED err
    /\ UNCHANGED <<nb1, texts, data2, ngrams, onion_garlic>>

(***************************************************************************)
(* The Acronym Normalizer as a function of one comment: the primary map    *)
(* in order, then the special cases.                                       *)
(***************************************************************************)
RECURSIVE ExpandFrom(_, _)
ExpandFrom(x, k) ==
    IF k > Len(acronym_map) THEN x
    ELSE ExpandFrom(str_replace(x, acronym_map[k].abbr, acronym_map[k].full),
                    k + 1)

normalize(x) == str_replace(ExpandFrom(x, 1), ohai, ohai_full)

(***************************************************************************)
(* Inputs of the character-level specification of the normalizer: one row  *)
(* whose comment is any text of at most MaxLen characters over one of the  *)
(* alphabets, or one of the named comments.                                *)
(***************************************************************************)
TextsOver(alphabet) == UNION { [1..n -> alphabet] : n \in 0..MaxLen }

NormAlphabets == {
    {"G", "o", "/", "N", " "},
    {"I", "p", "A", "L", "s"},
    {"T", "2", "n", "-", "G"},
    {"H", "2", "S", "_", " "},
    {"O", "h", "A", "i", " "},
    {"D", "M", "T", "S", "/"} }

IpadLightShow == Chars("IPAD light show")
ClassicIpa == Chars("classic IPA")
ClassicIndiaPaleAle ==
    Chars("classic india pale ale")
GoInThisOne == Chars("GO in this one")
OnionGarlicInThisOne ==
    Chars("onion garlic in this one")
GoGo == Chars("GO GO")
Wow == Chars("WOW")
IpasAndOhai == Chars("IPAs and OHAI")
T2nSlashGo == Chars("T2N/GO")
HazyIndiaPaleAles == Chars("hazy India Pale Ales")

NamedComments ==
    { IpadLightShow, ClassicIpa, GoInThisOne, GoGo, Wow, IpasAndOhai, T2nSlashGo,
      ClassicIndiaPaleAle, OnionGarlicInThisOne, HazyIndiaPaleAles }

NormTexts == UNION { TextsOver(a) : a \in NormAlphabets } \cup NamedComments

InitNorm == \E t \in NormTexts : InitWith(<< <<EventName, DriedHops, t>> >>)

NextNorm == ReadCsv \/ ApplyAcronym \/ SpecialCases

SpecNorm == InitNorm /\ [][NextNorm]_vars

(***************************************************************************)
(* The comments of the pipeline specifications.                            *)
(***************************************************************************)
SlightOnionGarlicNote == Chars("slight onion garlic note")
NoFruitNotVeryTropical == Chars("no fruit, not very tropical")
MangoPeachFruits == Chars("mango/peach fruits!")
QuotedDank == Chars("\"dank\"")
Good == Chars("Good")

Corpus ==
    { SlightOnionGarlicNote, GoInThisOne, NoFruitNotVeryTropical,
      MangoPeachFruits, QuotedDank, <<>> }

\* the lines of the input file: a comment of either sample type, a line
\* whose sample type is missing, or a comment holding an unknown acronym
Lines ==
    { <<EventName, s, t>> : s \in {DriedHops, Beer}, t \in Corpus }
        \cup { <<EventName, <<>>, SlightOnionGarlicNote>>,
               <<EventName, DriedHops, Wow>> }

SeqsUpTo(S, n) == UNION { [1..k -> S] : k \in 0..n }

\* a hops comment over the characters json.dump escapes, beside a beer one
JsonAlphabet == { "\"", "\\", "n", "N" }
JsonInputs ==
    { << <<EventName, DriedHops, t>>, <<EventName, Beer, Good>> >> :
        t \in TextsOver(JsonAlphabet) }

Init == \E input \in SeqsUpTo(Lines, MaxRows) \cup JsonInputs : InitWith(input)

Next ==
    \/ ReadCsv \/ ApplyAcronym \/ SpecialCases
    \/ Reshape \/ SplitRecords \/ WordCounts \/ Save
    \/ JsonLoad \/ Partition
    \/ HopsNgramIter \/ HopsNgramCount \/ BeerNgramIter \/ BeerNgramCount
    \/ PosTagging \/ OnionGarlic \/ Categorical

\* both notebooks, run one after the other on an input file
Spec == Init /\ [][Next]_vars

(***************************************************************************)
(* Notebook 2 on its own: its input is an interchange document, the dump   *)
(* of at most MaxRecords records with normalized comments.                 *)
(***************************************************************************)
AnalysisRecords ==
    { [sample |-> DriedHops, text |-> normalize(read_field(t))] :
        t \in {SlightOnionGarlicNote, NoFruitNotVeryTropical, MangoPeachFruits, <<>>} }
        \cup { [sample |-> Beer, text |-> normalize(GoInThisOne)] }

\* the state before the first cell of notebook 2 runs, the interchange
\* document being the dump of recs
InitWithDocument(recs) ==
    /\ csv = <<>>
    /\ data = <<>>
    /\ abbr_i = 1
    /\ plural_count = 0
    /\ ohai_count = 0
    /\ records = <<>>
    /\ hops_word_counts = <<>>
    /\ beer_word_counts = <<>>
    /\ file = [exists |-> TRUE, doc |-> json_dump(recs)]
    /\ hops_texts = <<>>
    /\ beer_texts = <<>>
    /\ FreshNb2
    /\ pc = "json_load"
    /\ err = "none"

InitAnalysis ==
    \E recs \in SeqsUpTo(AnalysisRecords, MaxRecords) : InitWithDocument(recs)

NextAnalysis ==
    \/ JsonLoad \/ Partition
    \/ HopsNgramIter \/ HopsNgramCount \/ BeerNgramIter \/ BeerNgramCount
    \/ PosTagging \/ OnionGarlic \/ Categorical

SpecAnalysis == InitAnalysis /\ [][NextAnalysis]_vars

(***************************************************************************)
(* Notebook 2 on documents of long and of short comments: a partition of   *)
(* the two long ones has more than TopK different unigrams and bigrams,    *)
(* equal counts, and n-grams that repeat; the short ones are the empty     *)
(* text, a text of punctuation only, and texts of one, two and three       *)
(* words, the last with a plural whose base form is a stopword.            *)
(***************************************************************************)
BrightOrangeZest == Chars("bright orange grapefruit lemon peel zest aroma")
DankPineResin == Chars("dank pine resin, onion garlic sulfur note")
EmptyText == <<>>
PunctuationOnly == Chars(", - !")
StoneFruit == Chars("stone fruit!")
OldBeerCans == Chars("old beer cans")

RankingRecords ==
    { [sample |-> DriedHops, text |-> t] :
        t \in {BrightOrangeZest, DankPineResin, EmptyText, PunctuationOnly,
               StoneFruit} }
        \cup { [sample |-> Beer, text |-> t] : t \in {Good, OldBeerCans} }

InitRanking ==
    \E recs \in SeqsUpTo(RankingRecords, MaxRecords) : InitWithDocument(recs)

SpecRanking == InitRanking /\ [][NextAnalysis]_vars

(***************************************************************************)
(* Claims about the Acronym Normalizer (specification SpecNorm).           *)
(***************************************************************************)
\* the comment of row r as read from the file, before any rewriting
RawComment(r) == read_field(csv[r][3])

\* the normalizer has finished and rewritten every row
Normalized == pc = "reshape" /\ err = "none"

\* C1: the normalizer is idempotent: normalizing a comment the normalizer
\* has produced gives that comment back.
C1_NormalizeIdempotent ==
    Normalized =>
        \A r \in 1..Len(data) : normalize(data[r].Comments) = data[r].Comments

\* C1 witness: the normalizer has rewritten a comment (an acronym was
\* expanded), and that output is what is normalized again.
C1_Witness ==
    /\ Normalized
    /\ \E r \in 1..Len(data) : data[r].Comments # RawComment(r)

\* a whole-word occurrence of key at position i, in the claim's words: the
\* same letters ignoring case, not preceded and not followed by a letter,
\* digit or underscore
WholeWordOccurrence(text, i, key) ==
    /\ i + Len(key) - 1 <= Len(text)
    /\ \A j \in 1..Len(key) : lower_char(text[i + j - 1]) = lower_char(key[j])
    /\ (i = 1 \/ ~IsWordChar(text[i - 1]))
    /\ (i + Len(key) > Len(text) \/ ~IsWordChar(text[i + Len(key)]))

\* every key of the normalizer with its expansion
AllKeys ==
    { acronym_map[k] : k \in 1..Len(acronym_map) }
        \cup { [abbr |-> ohai, full |-> ohai_full] }

\* text with exactly its whole-word key occurrences replaced by their
\* expansions and every other character kept, from position i on
RECURSIVE ExpandWholeWords(_, _)
ExpandWholeWords(text, i) ==
    IF i > Len(text) THEN <<>>
    ELSE LET here == { k \in AllKeys : WholeWordOccurrence(text, i, k.abbr) }
         IN  IF here = {} THEN <<text[i]>> \o ExpandWholeWords(text, i + 1)
             ELSE LET k == CHOOSE k \in here : TRUE
                  IN  k.full \o ExpandWholeWords(text, i + Len(k.abbr))

\* C2: a key occurrence is replaced by its lowercase expansion if and only
\* if it is a whole word, compared ignoring case; "IPAD light show" is
\* unchanged, "classic IPA" and "GO in this one" are expanded.
C2_WholeWordOnly ==
    Normalized =>
        \A r \in 1..Len(data) :
            LET raw == RawComment(r)
                out == data[r].Comments
            IN  /\ ~isna(raw) => out = ExpandWholeWords(raw, 1)
                /\ raw = IpadLightShow => out = IpadLightShow
                /\ raw = ClassicIpa => out = ClassicIndiaPaleAle
                /\ raw = GoInThisOne => out = OnionGarlicInThisOne

\* C2 witness: a comment holding a key only inside a longer word has gone
\* through the normalizer.
C2_Witness ==
    /\ Normalized
    /\ \E r \in 1..Len(data) :
          /\ RawComment(r) = IpadLightShow
          /\ \E i \in 1..Len(IpadLightShow) :
                LiteralAt(IpadLightShow, i, acronym_map[7].abbr)

(***************************************************************************)
(* Claims about the analysis (specifications Spec and SpecAnalysis).       *)
(***************************************************************************)
\* the cells of notebook 2 that analyse the partitions
AnalysisCells ==
    {"hops_ngrams", "beer_ngrams", "pos", "onion_garlic", "categorical", "done"}

\* the number of whole-word occurrences of word in text, ignoring case
Occurrences(text, word) ==
    Cardinality({ i \in 1..Len(text) : WholeWordOccurrence(text, i, word) })

\* the number of positions of items holding x
Times(items, x) == Cardinality({ i \in 1..Len(items) : items[i] = x })

RECURSIVE SumOver(_, _)
SumOver(f, n) == IF n = 0 THEN 0 ELSE f[n] + SumOver(f, n - 1)

\* the hops loop has run over every comment of the partition
HopsLoopDone == pc = "hops_ngrams" /\ err = "none" /\ text_i > Len(hops_texts)

\* C3: every occurrence of a protected word (not, no, very, never) in a
\* comment has its token in the token sequence: the unigram list of the
\* partition holds each protected word at least as often as the comments do.
C3_ProtectedWordsSurvive ==
    HopsLoopDone =>
        \A w \in important_words :
            Times(hops_ngrams.words, w) >=
                SumOver([i \in 1..Len(hops_texts) |-> Occurrences(hops_texts[i], w)],
                        Len(hops_texts))

\* C4: no analysis step raises on a record whose comment text is missing.
C4_MissingTextNeverRaises ==
    (pc \in AnalysisCells /\ (has_missing(hops_texts) \/ has_missing(beer_texts)))
        => err = "none"

\* C5: with a sample type that has no comment, no percentage computation
\* of the analysis divides by zero.
C5_EmptyPartitionNeverRaises ==
    (pc \in AnalysisCells /\ (hops_texts = <<>> \/ beer_texts = <<>>))
        => err # "ZeroDivisionError"

\* the windows of n adjacent tokens of one token sequence, joined by spaces
RECURSIVE JoinTokens(_)
JoinTokens(toks) ==
    IF Len(toks) = 1 THEN toks[1]
    ELSE toks[1] \o <<" ">> \o JoinTokens(Tail(toks))

WindowsOf(toks, n) ==
    { JoinTokens(SubSeq(toks, j, j + n - 1)) : j \in 1..(Len(toks) - n + 1) }

\* the n-word windows lying inside one single comment of items
WindowsWithinComments(items, n) ==
    UNION { WindowsOf(cleaned_tokens(items[i]), n) :
                i \in { k \in 1..Len(items) : ~isna(items[k]) } }

Range(f) == { f[i] : i \in DOMAIN f }

\* C6: no bigram or trigram window spans two comments: every collected
\* bigram (trigram) is a pair (triple) of adjacent tokens of one comment.
C6_NoCrossCommentNgram ==
    /\ Range(hops_ngrams.bigrams) \subseteq WindowsWithinComments(hops_texts, 2)
    /\ Range(hops_ngrams.trigrams) \subseteq WindowsWithinComments(hops_texts, 3)
    /\ Range(beer_ngrams.bigrams) \subseteq WindowsWithinComments(beer_texts, 2)
    /\ Range(beer_ngrams.trigrams) \subseteq WindowsWithinComments(beer_texts, 3)

\* C6 witness: two comments of one partition, each of three tokens or more,
\* have been through the loop, so that a window over the joined stream
\* would span them.
C6_Witness ==
    /\ pc = "beer_ngrams"
    /\ Len(hops_texts) = 2
    /\ \A i \in 1..2 : ~isna(hops_texts[i]) /\ Len(cleaned_tokens(hops_texts[i])) >= 3
    /\ hops_texts[1] # hops_texts[2]
    /\ Len(hops_ngrams.trigrams) >= 2

\* a comment mentions a category: one of its keywords occurs in it as a
\* whole word, ignoring case
Mentions(text, alts) ==
    \E i \in 1..Len(text) : \E a \in alts : WholeWordOccurrence(text, i, a)

\* the number of comments of items mentioning the category
CommentsMentioning(items, alts) ==
    Cardinality({ i \in 1..Len(items) : Mentions(items[i], alts) })

\* C7: each category's count is the number of comments of the partition in
\* which its pattern matches at least once, each category on its own.
C7_CountIsCommentsMatching ==
    pc = "done" =>
        \A c \in 1..Len(descriptor_categories) :
            /\ hops_rows[c].category = descriptor_categories[c].label
            /\ hops_rows[c].n_comments =
                 CommentsMentioning(hops_texts, descriptor_categories[c].alts)
            /\ beer_rows[c].category = descriptor_categories[c].label
            /\ beer_rows[c].n_comments =
                 CommentsMentioning(beer_texts, descriptor_categories[c].alts)

\* C7 witness: the rows were computed over a partition of two comments, one
\* with two keyword occurrences of a category and one mentioning two
\* categories.
C7_Witness ==
    /\ pc = "done"
    /\ \E i, j \in 1..Len(hops_texts) :
          /\ Cardinality({ k \in 1..Len(hops_texts[i]) :
                  \E a \in descriptor_categories[5].alts :
                      WholeWordOccurrence(hops_texts[i], k, a) }) >= 2
          /\ Cardinality({ c \in 1..Len(descriptor_categories) :
                  Mentions(hops_texts[j], descriptor_categories[c].alts) }) >= 2

\* C8: every prevalence row has 0 <= count <= partition size and a share
\* between 0 and 1 (a fraction num/den with 0 <= num <= den and den > 0).
C8_RowsInRange ==
    \A rows \in {hops_rows, beer_rows} :
        \A c \in 1..Len(rows) :
            /\ 0 <= rows[c].n_comments
            /\ rows[c].n_comments <= rows[c].n_total
            /\ rows[c].n_total = (IF rows = hops_rows THEN Len(hops_texts)
                                                      ELSE Len(beer_texts))
            /\ rows[c].pct_comments.den > 0
            /\ 0 <= rows[c].pct_comments.num
            /\ rows[c].pct_comments.num <= rows[c].pct_comments.den

\* C8 witness: rows of both partitions exist, one with a count of 0 and one
\* whose count equals the partition size.
C8_Witness ==
    /\ hops_rows # <<>> /\ beer_rows # <<>>
    /\ \E c \in 1..Len(hops_rows) : hops_rows[c].n_comments = 0
    /\ \E c \in 1..Len(hops_rows) :
          hops_rows[c].n_comments = hops_rows[c].n_total /\ hops_rows[c].n_total = 2

\* a count table as a mapping: the set of its (n-gram, count) pairs
AsMapping(counter) == { <<counter[i].key, counter[i].n>> : i \in DOMAIN counter }

\* the count tables of one partition of a record list
RECURSIVE NgramListsOf(_)
NgramListsOf(items) ==
    IF items = <<>> THEN NoNgrams
    ELSE extend_ngrams(NgramListsOf(SubSeq(items, 1, Len(items) - 1)),
                       items[Len(items)])

TablesOf(recs, sample) ==
    LET counts == count_ngrams(NgramListsOf(texts_of(recs, sample)))
    IN  [unigram |-> AsMapping(counts.unigram),
         bigram  |-> AsMapping(counts.bigram),
         trigram |-> AsMapping(counts.trigram)]

\* the category counts of one partition of a record list
CategoryCountsOf(recs, sample) ==
    [c \in 1..Len(descriptor_categories) |->
        count_matching(descriptor_categories[c].alts, texts_of(recs, sample), 1)]

\* the record list with the records at positions i and j exchanged
Swapped(recs, i, j) ==
    [k \in 1..Len(recs) |->
        IF k = i THEN recs[j] ELSE IF k = j THEN recs[i] ELSE recs[k]]

\* the positions to exchange: a record with itself (the list as it is) or
\* with its right neighbour
Exchanges(recs) ==
    { <<i, j>> \in (1..Len(recs)) \X (1..Len(recs)) : j = i \/ j = i + 1 }

\* both n-gram cells have just run
NgramsCounted == pc = "pos" /\ err = "none"

\* C9: the n-gram count tables and the category counts of each partition
\* are the same, as mappings, when the input records are reordered.  Every
\* reordering is a chain of exchanges of neighbours and every record list
\* is an input, so the property is stated for one exchange: the tables the
\* run has computed are those of the list as it is and of the list with any
\* two neighbouring records exchanged.
C9_OrderIndependent ==
    \A x \in Exchanges(data2) :
        LET recs == Swapped(data2, x[1], x[2])
        IN  /\ NgramsCounted =>
                /\ TablesOf(recs, DriedHops) =
                     [unigram |-> AsMapping(hops_counts.unigram),
                      bigram  |-> AsMapping(hops_counts.bigram),
                      trigram |-> AsMapping(hops_counts.trigram)]
                /\ TablesOf(recs, Beer) =
                     [unigram |-> AsMapping(beer_counts.unigram),
                      bigram  |-> AsMapping(beer_counts.bigram),
                      trigram |-> AsMapping(beer_counts.trigram)]
            /\ pc = "done" =>
                /\ CategoryCountsOf(recs, DriedHops) =
                     [c \in 1..Len(hops_rows) |-> hops_rows[c].n_comments]
                /\ CategoryCountsOf(recs, Beer) =
                     [c \in 1..Len(beer_rows) |-> beer_rows[c].n_comments]

\* C9 witness: the run has finished on a partition of two different
\* neighbouring comments that share a unigram, so that exchanging them
\* inserts the n-grams in another order.
C9_Witness ==
    /\ pc = "done"
    /\ Len(hops_texts) = 2
    /\ hops_texts[1] # hops_texts[2]
    /\ data2[1].sample = DriedHops /\ data2[2].sample = DriedHops
    /\ \E i \in 1..Len(hops_counts.unigram) : hops_counts.unigram[i].n >= 2
    /\ hops_counts.bigram # <<>>

\* notebook 2 has loaded the document
Reloaded == file.exists /\ pc \in {"partition"} \cup AnalysisCells

\* C10: the reloaded record list is the {sample, text} projection of the
\* normalized data: same length, same order, equal sample and text at every
\* position, missing text included.
C10_RoundTrip ==
    Reloaded =>
        /\ Len(data2) = Len(data)
        /\ \A r \in 1..Len(data) :
              /\ data2[r].sample = data[r].Sample
              /\ data2[r].text = data[r].Comments

\* C10 witness: a document with a missing text and a text that json.dump
\* has to escape has been written and reloaded.
C10_Witness ==
    /\ Reloaded
    /\ \E r \in 1..Len(data2) : isna(data2[r].text)
    /\ \E r \in 1..Len(data2) :
          ~isna(data2[r].text) /\ \E i \in 1..Len(data2[r].text) : data2[r].text[i] = "\""

(***************************************************************************)
(* Claims about the exporter, the ranking and the normalizer's frame.      *)
(***************************************************************************)
\* an encoded value of the document is a JSON string: it stands between
\* double quotes
IsJsonString(v) == Len(v) >= 2 /\ v[1] = "\"" /\ v[Len(v)] = "\""

\* the document has one object per line of the input file, in the order of
\* the file, with the row's sample and its normalized comment
OnePerRowInOrder ==
    /\ Len(file.doc) = Len(csv)
    /\ \A r \in 1..Len(csv) :
          /\ DOMAIN file.doc[r] = {"sample", "text"}
          /\ json_loads_value(file.doc[r].sample) = read_field(csv[r][2])
          /\ json_loads_value(file.doc[r].text) = normalize(RawComment(r))

\* C11: the exported document has exactly one object per input row, in
\* input order, each with exactly the two string fields sample and text,
\* text being the normalized comment of the row at that position.
C11_ExportSchema ==
    file.exists =>
        /\ OnePerRowInOrder
        /\ \A r \in 1..Len(file.doc) :
              IsJsonString(file.doc[r].sample) /\ IsJsonString(file.doc[r].text)

\* the position at which key is first met in stream
FirstSeen(stream, key) ==
    CHOOSE i \in 1..Len(stream) :
        stream[i] = key /\ \A j \in 1..(i - 1) : stream[j] # key

\* a ranks before b: it is counted more often in stream or, counted as
\* often, first met earlier
RanksBefore(stream, a, b) ==
    \/ Times(stream, a) > Times(stream, b)
    \/ /\ Times(stream, a) = Times(stream, b)
       /\ FirstSeen(stream, a) < FirstSeen(stream, b)

\* top is the first TopK of the ranking of the n-grams of stream counted
\* more than least times: its entries are different n-grams of stream with
\* their counts, each ranks before the next and before every n-gram left out
IsRankedTop(top, stream, least) ==
    LET eligible == { k \in Range(stream) : Times(stream, k) > least }
        shown == { top[i].key : i \in 1..Len(top) }
    IN  /\ shown \subseteq eligible
        /\ Len(top) = (IF Cardinality(eligible) < TopK
                       THEN Cardinality(eligible) ELSE TopK)
        /\ \A i \in 1..Len(top) : top[i].n = Times(stream, top[i].key)
        /\ \A i, j \in 1..Len(top) :
              i < j => RanksBefore(stream, top[i].key, top[j].key)
        /\ \A i \in 1..Len(top) : \A k \in eligible \ shown :
              RanksBefore(stream, top[i].key, k)

\* the cell of a partition has printed its ranked lists
HopsRanked == pc \in {"beer_ngrams", "pos", "onion_garlic", "categorical", "done"}
BeerRanked == pc \in {"pos", "onion_garlic", "categorical", "done"}

\* C12: each ranked list (top unigrams, top bigrams, frequent trigrams) is
\* in count-descending order, equal counts in the order in which the
\* n-grams were first met in the token stream, and holds the first TopK
\* entries of that order.
C12_RankedStable ==
    /\ HopsRanked =>
          /\ IsRankedTop(hops_top.unigrams, hops_ngrams.words, 0)
          /\ IsRankedTop(hops_top.bigrams, hops_ngrams.bigrams, 0)
          /\ IsRankedTop(hops_top.trigrams, hops_ngrams.trigrams, 1)
    /\ BeerRanked =>
          /\ IsRankedTop(beer_top.unigrams, beer_ngrams.words, 0)
          /\ IsRankedTop(beer_top.bigrams, beer_ngrams.bigrams, 0)
          /\ IsRankedTop(beer_top.trigrams, beer_ngrams.trigrams, 1)

\* C12 witness: the hops cell has printed a list of TopK unigrams cut from
\* more than TopK, in which an n-gram met later ranks first by its count
\* and two n-grams of equal count stand in the order they were met.
C12_Witness ==
    /\ HopsRanked
    /\ Len(hops_top.unigrams) = TopK
    /\ Cardinality(Range(hops_ngrams.words)) > TopK
    /\ \E i, j \in 1..Len(hops_top.unigrams) :
          /\ i < j
          /\ hops_top.unigrams[i].n > hops_top.unigrams[j].n
          /\ FirstSeen(hops_ngrams.words, hops_top.unigrams[i].key) >
                FirstSeen(hops_ngrams.words, hops_top.unigrams[j].key)
    /\ \E i \in 1..(Len(hops_top.unigrams) - 1) :
          hops_top.unigrams[i].n = hops_top.unigrams[i + 1].n

\* the comment of row r after the primary map alone
AfterPrimaryMap(r) == ExpandFrom(RawComment(r), 1)

\* C13: the plural rule detects and normalizes the plural of the IPA
\* expansion: a comment that holds "india pale ales" after the primary map
\* is counted by the rule and its normalized text differs from the text
\* the primary map alone produces.
C13_PluralRuleRewrites ==
    Normalized =>
        \A r \in 1..Len(data) :
            (~isna(AfterPrimaryMap(r))
                /\ Occurrences(AfterPrimaryMap(r), india_pale_ales) > 0)
            => (plural_count > 0 /\ data[r].Comments # AfterPrimaryMap(r))

\* row r of the input file lacks its sample type
LacksSample(r) == isna(read_field(csv[r][2]))

\* the cells that run once notebook 1 has split the records by sample type
AfterSplit == {"word_count", "save", "json_load", "partition"} \cup AnalysisCells

\* C14: a row that lacks its sample type stops the run at load time: with
\* such a row in the input file no cell gets as far as splitting the
\* records into partitions, so no partition is computed without the row.
C14_MalformedRowStopsLoad ==
    (\E r \in 1..Len(csv) : LacksSample(r)) => pc \notin AfterSplit

\* the keys the normalizer has applied so far: the first abbr_i - 1 keys of
\* the map and, once the special cases have run, OHAI
KeysApplied ==
    { acronym_map[k] : k \in 1..(abbr_i - 1) }
        \cup (IF pc = "reshape" THEN { [abbr |-> ohai, full |-> ohai_full] }
                                ELSE {})

\* text with exactly its whole-word occurrences of the keys of keys
\* replaced in one pass, every other character kept, from position i on
RECURSIVE ExpandInOnePass(_, _, _)
ExpandInOnePass(text, i, keys) ==
    IF i > Len(text) THEN <<>>
    ELSE LET here == { k \in keys : WholeWordOccurrence(text, i, k.abbr) }
         IN  IF here = {} THEN <<text[i]>> \o ExpandInOnePass(text, i + 1, keys)
             ELSE LET k == CHOOSE k \in here : TRUE
                  IN  k.full \o ExpandInOnePass(text, i + Len(k.abbr), keys)

\* the normalizer is at work or has finished
Normalizing == pc \in {"acronyms", "special_cases", "reshape"} /\ err = "none"

\* C15: replacing key after key in map order never matches text an earlier
\* replacement introduced: after every step the comment is the original
\* text with the whole-word occurrences of the keys applied so far replaced
\* in one simultaneous pass.
C15_SequentialIsSimultaneous ==
    Normalizing =>
        \A r \in 1..Len(data) :
            ~isna(RawComment(r)) =>
                data[r].Comments = ExpandInOnePass(RawComment(r), 1, KeysApplied)

\* C15 witness: a comment holding two different keys has been normalized,
\* the key replaced first standing after the other in the text.
C15_Witness ==
    /\ Normalized
    /\ \E r \in 1..Len(data) :
          /\ RawComment(r) = T2nSlashGo
          /\ WholeWordOccurrence(T2nSlashGo, 1, acronym_map[5].abbr)
          /\ WholeWordOccurrence(T2nSlashGo, 5, acronym_map[1].abbr)
          /\ data[r].Comments = acronym_map[5].full \o <<"/">> \o acronym_map[1].full

\* text holds no whole-word occurrence of a key of the normalizer
HoldsNoKey(text) ==
    \A i \in 1..Len(text) : \A k \in AllKeys : ~WholeWordOccurrence(text, i, k.abbr)

\* C16: the normalizer changes nothing but key occurrences inside the
\* comment text: the frame keeps its rows in the order of the file with
\* their Event and Sample, a missing comment stays missing, and a comment
\* holding no whole-word key occurrence (such as "WOW") is kept as it is.
C16_NormalizerFrame ==
    pc # "read_csv" =>
        /\ Len(data) = Len(csv)
        /\ \A r \in 1..Len(data) :
              /\ data[r].Event = read_field(csv[r][1])
              /\ data[r].Sample = read_field(csv[r][2])
              /\ isna(RawComment(r)) => isna(data[r].Comments)
              /\ data[r].Comments = RawComment(r)
                    \/ (~isna(RawComment(r)) /\ ~HoldsNoKey(RawComment(r)))
              /\ RawComment(r) = Wow => data[r].Comments = Wow

\* C16 witness: the normalizer has finished on a file of two rows, the
\* first with a missing comment, the second with the unknown acronym.
C16_Witness ==
    /\ Normalized
    /\ Len(data) = 2
    /\ isna(RawComment(1)) /\ isna(data[1].Comments)
    /\ RawComment(2) = Wow

(***************************************************************************)
(* Claims about the tokenizer and the partitions.                          *)
(***************************************************************************)
\* text is empty or made of punctuation and spaces only
IsBlank(text) == \A i \in 1..Len(text) : ~IsWordChar(text[i])

\* one comment goes through the loop: before and after are the three lists
\* around the iteration.  The iteration does not raise, a blank comment
\* adds nothing, fewer than 2 new tokens add no bigram and fewer than 3 no
\* trigram.
IterationAddsNoShortNgram(text, before, after) ==
    LET k == Len(after.words) - Len(before.words)
    IN  /\ err' = "none"
        /\ IsBlank(text) => after = before
        /\ k < 2 => after.bigrams = before.bigrams
        /\ k < 3 => after.trigrams = before.trigrams

\* the loop of a partition is about to take a comment that is a text
HopsLoopAtText ==
    /\ pc = "hops_ngrams" /\ err = "none"
    /\ text_i <= Len(hops_texts) /\ ~isna(hops_texts[text_i])
BeerLoopAtText ==
    /\ pc = "beer_ngrams" /\ err = "none"
    /\ text_i <= Len(beer_texts) /\ ~isna(beer_texts[text_i])

\* C17: an empty comment or one of punctuation only yields no token and
\* does not raise; a comment of fewer than 2 tokens adds no bigram and one
\* of fewer than 3 no trigram, without raising either.
C17_ShortCommentsAddNothing ==
    [][ /\ HopsLoopAtText =>
            IterationAddsNoShortNgram(hops_texts[text_i], hops_ngrams, hops_ngrams')
        /\ BeerLoopAtText =>
            IterationAddsNoShortNgram(beer_texts[text_i], beer_ngrams, beer_ngrams')
      ]_vars

\* C17 witness: the hops loop has gone through the empty text, the text of
\* punctuation only and the text of two words, which left two unigrams, one
\* bigram and no trigram.
C17_Witness ==
    /\ HopsLoopDone
    /\ hops_texts = <<EmptyText, PunctuationOnly, StoneFruit>>
    /\ Len(hops_ngrams.words) = 2
    /\ Len(hops_ngrams.bigrams) = 1
    /\ hops_ngrams.trigrams = <<>>

\* the smaller of two numbers
Smaller(a, b) == IF a < b THEN a ELSE b

\* the n-grams of stream counted more than once, each with its count
CountedMoreThanOnce(stream) ==
    { <<k, Times(stream, k)>> : k \in { x \in Range(stream) : Times(stream, x) > 1 } }

\* list holds each n-gram of stream counted more than once, once, with its
\* full count, and nothing else
HoldsExactlyFrequent(list, stream) ==
    /\ { <<list[i].key, list[i].n>> : i \in 1..Len(list) } = CountedMoreThanOnce(stream)
    /\ Len(list) = Cardinality(CountedMoreThanOnce(stream))

\* the printed lists of a partition: the trigrams are taken from those
\* counted more than once, as many as there are up to TopK; the unigrams
\* and bigrams are as many as there are different ones up to TopK, those
\* counted once included
PrintedAfterFilter(top, lists) ==
    /\ { <<top.trigrams[i].key, top.trigrams[i].n>> : i \in 1..Len(top.trigrams) }
          \subseteq CountedMoreThanOnce(lists.trigrams)
    /\ Len(top.trigrams) = Smaller(TopK, Cardinality(CountedMoreThanOnce(lists.trigrams)))
    /\ Len(top.unigrams) = Smaller(TopK, Cardinality(Range(lists.words)))
    /\ Len(top.bigrams) = Smaller(TopK, Cardinality(Range(lists.bigrams)))

\* C18: the ranked trigram list of a partition holds exactly the trigrams
\* counted more than once in the partition, each with its full count, the
\* filter coming before the cut to TopK; unigrams and bigrams are not
\* filtered by count.
C18_TrigramsFiltered ==
    /\ pc = "beer_ngrams" => HoldsExactlyFrequent(frequent_trigrams, hops_ngrams.trigrams)
    /\ BeerRanked => HoldsExactlyFrequent(frequent_trigrams, beer_ngrams.trigrams)
    /\ HopsRanked => PrintedAfterFilter(hops_top, hops_ngrams)
    /\ BeerRanked => PrintedAfterFilter(beer_top, beer_ngrams)

\* C18 witness: the hops cell has run on a partition in which some
\* trigrams are counted twice and others once; the list holds the former,
\* and the unigram list shows a unigram counted once.
C18_Witness ==
    /\ pc = "beer_ngrams"
    /\ frequent_trigrams # <<>>
    /\ \E k \in Range(hops_ngrams.trigrams) : Times(hops_ngrams.trigrams, k) = 1
    /\ \E i \in 1..Len(hops_top.unigrams) : hops_top.unigrams[i].n = 1

\* the texts of the records of recs whose sample is sample, in the order
\* of recs
TextsWithSample(recs, sample) ==
    LET picked == SelectSeq(recs, LAMBDA rec : rec.sample = sample)
    IN  [i \in 1..Len(picked) |-> picked[i].text]

\* the two partitions of recs are the texts of its Dried Hops and of its
\* Beer records in their original order
InOriginalOrder(recs) ==
    /\ hops_texts = TextsWithSample(recs, DriedHops)
    /\ beer_texts = TextsWithSample(recs, Beer)

\* the two partitions together hold every record of recs
NoRecordLeftOut(recs) == Len(hops_texts) + Len(beer_texts) = Len(recs)

\* the cells between the split of notebook 1 and the split of notebook 2
AfterSplit1 == {"word_count", "save", "json_load", "partition"}

\* C19: splitting the records by sample type gives two partitions in the
\* records' original order that together hold every record:
\* len(hops_texts) + len(beer_texts) = len(data).
C19_PartitionComplete ==
    /\ pc \in AfterSplit1 => InOriginalOrder(records) /\ NoRecordLeftOut(records)
    /\ pc \in AnalysisCells => InOriginalOrder(data2) /\ NoRecordLeftOut(data2)

\* the maximal runs of word characters of text
MaximalRuns(text) ==
    { SubSeq(text, i, j) : <<i, j>> \in
        { p \in (1..Len(text)) \X (1..Len(text)) :
            /\ p[1] <= p[2]
            /\ \A k \in p[1]..p[2] : IsWordChar(text[k])
            /\ (p[1] = 1 \/ ~IsWordChar(text[p[1] - 1]))
            /\ (p[2] = Len(text) \/ ~IsWordChar(text[p[2] + 1])) } }

\* the contiguous pieces of word
Pieces(word) ==
    { SubSeq(word, i, j) : <<i, j>> \in
        { p \in (1..Len(word)) \X (1..Len(word)) : p[1] <= p[2] } }

\* tok comes from the run: it is the base form of a piece of the run in
\* lower case without its digits
ComesFromRun(tok, run) ==
    \E piece \in Pieces(remove_digits(lower(run))) : lemmatize(piece) = tok

\* every token of words comes from one maximal run of word characters of
\* one comment of items
TokensFromSingleRuns(words, items) ==
    \A w \in Range(words) :
        \E i \in { k \in 1..Len(items) : ~isna(items[k]) } :
            \E run \in MaximalRuns(items[i]) : ComesFromRun(w, run)

\* C20: every token comes from one single maximal run of word characters
\* of its comment: words separated by a non-word character are never fused
\* into one token.
C20_NoFusedTokens ==
    /\ TokensFromSingleRuns(hops_ngrams.words, hops_texts)
    /\ TokensFromSingleRuns(beer_ngrams.words, beer_texts)

(***************************************************************************)
(* Claims about the final token sequences and the counts.                  *)
(***************************************************************************)
\* every token of words has more than 2 characters and is no stopword
LongAndNoStopword(words) ==
    \A i \in 1..Len(words) : Len(words[i]) > 2 /\ words[i] \notin stop_words

\* C21: every token of a final token sequence, as counted after
\* lemmatization, has more than 2 characters and is not in the effective
\* stopword set (the stopwords without the protected words).
C21_FinalTokensFiltered ==
    /\ LongAndNoStopword(hops_ngrams.words)
    /\ LongAndNoStopword(beer_ngrams.words)

\* the sum of the counts of a count table
RECURSIVE SumOfCounts(_)
SumOfCounts(counter) ==
    IF counter = <<>> THEN 0
    ELSE Head(counter).n + SumOfCounts(Tail(counter))

\* max(k - less, 0)
AtLeastZero(k, less) == IF k > less THEN k - less ELSE 0

\* the sum over the comments of items of max(k - less, 0), k being the
\* length of the comment's token sequence
SumOverComments(items, less) ==
    SumOver([i \in 1..Len(items) |->
                AtLeastZero(Len(cleaned_tokens(items[i])), less)],
            Len(items))

\* the counts of a partition add up to its tokens, to its adjacent pairs
\* and to its adjacent triples
CountsConserved(counts, items) ==
    /\ SumOfCounts(counts.unigram) = SumOverComments(items, 0)
    /\ SumOfCounts(counts.bigram) = SumOverComments(items, 1)
    /\ SumOfCounts(counts.trigram) = SumOverComments(items, 2)

\* the cell of a partition has just built its count tables (no later cell
\* assigns them)
HopsJustCounted == pc = "beer_ngrams" /\ text_i = 1 /\ err = "none"
BeerJustCounted == pc = "pos" /\ err = "none"

\* C22: per partition the unigram counts add up to the number of tokens of
\* its comments, the bigram counts to the sum of max(k - 1, 0) and the
\* trigram counts (before the filter) to the sum of max(k - 2, 0), k being
\* the length of a comment's token sequence.
C22_CountsConserved ==
    /\ HopsJustCounted => CountsConserved(hops_counts, hops_texts)
    /\ BeerJustCounted => CountsConserved(beer_counts, beer_texts)

\* C22 witness: the hops cell has counted a partition of a comment without
\* tokens and a long comment that comes twice, so that counts above 1 and
\* a comment of k = 0 enter the sums.
C22_Witness ==
    /\ HopsJustCounted
    /\ hops_texts = <<PunctuationOnly, DankPineResin, DankPineResin>>
    /\ \E i \in 1..Len(hops_counts.trigram) : hops_counts.trigram[i].n = 2
    /\ SumOfCounts(hops_counts.unigram) = 14

=============================================================================
